---- MODULE Spec2Model ----
(***************************************************************************)
(* A model of the scull character device of src/scull/scull.c: one        *)
(* struct scull_dev (size, quantum, qset, the list of quantum sets, the   *)
(* semaphore), the kernel heap it allocates from, and the callers that    *)
(* run scull_open, scull_read and scull_write against it, one C statement *)
(* group at a time.                                                       *)
(*                                                                         *)
(* Every statement group is a pure operator on (M, l): M is the shared    *)
(* memory (the device, the heap and the record of undefined behaviour),   *)
(* l the locals of the calling thread.  The                               *)
(* actions apply the operator of the caller's program counter to the      *)
(* variables; Run applies them in a row, which is the call executed       *)
(* alone.                                                                  *)
(***************************************************************************)
EXTENDS Integers, Sequences, FiniteSets, TLC

VARIABLES dev, heap, ub, loc, param, snap, h

vars == <<dev, heap, ub, loc, param, snap, h>>

(***************************************************************************)
(* Bounds of the model.                                                    *)
(***************************************************************************)
MaxPos == 4
MaxCount == 3
MaxByte == 2
MaxNodes == 3
MaxFail == 2
MaxCalls == 3
MaxLen == 5
MaxQuantum == 4
MaxQset == 4
MaxOffset == 40
MaxSum == 7

(***************************************************************************)
(* Program constants.  scull.h is not part of the sources; the compiled-in *)
(* defaults are scaled down to values the model can enumerate.            *)
(***************************************************************************)
SCULL_QUANTUM == 2
SCULL_QSET == 2
ENOMEM == 12
EFAULT == 14
ERESTARTSYS == 512
SIZE_T_MOD == 65536

NULL == 0
Uninit == 0
NoFail == -1

Callers == {"a", "b"}
NodeIds == 1..MaxNodes
Bytes == 1..MaxByte

Min(S) == CHOOSE x \in S : \A y \in S : x <= y
Max2(x, y) == IF x >= y THEN x ELSE y
Min2(x, y) == IF x <= y THEN x ELSE y
Fill(n, v) == [i \in 1..n |-> v]

(***************************************************************************)
(* The heap.  A struct scull_qset has an address (threads keep pointers   *)
(* to it in dptr and qs); its array of pointers and the quanta are only   *)
(* reached through it, and are kept inside it: data is the array (p says  *)
(* whether the pointer is NULL), a slot is NULL, a quantum, or the        *)
(* address of a quantum that was freed.  lost says that memory was given  *)
(* up without being freed.                                                *)
(***************************************************************************)
NullSlot == [p |-> "null", bytes |-> <<>>]
FreedSlot == [p |-> "freed", bytes |-> <<>>]
NullArr == [p |-> "null", slots |-> <<>>]
DeadNode == [live |-> FALSE, next |-> NULL, data |-> NullArr]

EmptyHeap == [nodes |-> [i \in NodeIds |-> DeadNode], lost |-> FALSE]

\* whether the next kmalloc of the call succeeds: the call's budget of
\* successful allocations is not used up
kmalloc_ok(l) == l.allocLeft # 0

kmalloc_used(l) ==
  [l EXCEPT !.allocLeft = IF @ > 0 THEN @ - 1 ELSE @]

\* kmalloc(sizeof(struct scull_qset)): the address returned, NULL on failure
kmalloc_qset(hp, l) ==
  LET free == {i \in NodeIds : ~hp.nodes[i].live}
  IN IF kmalloc_ok(l) /\ free # {} THEN Min(free) ELSE NULL

\* memset(qs, 0, sizeof(struct scull_qset)) on a freshly allocated node
ZeroNode == [live |-> TRUE, next |-> NULL, data |-> NullArr]

\* kmalloc(qset * sizeof(char *)) and its memset to 0
ZeroArr(qset) == [p |-> "live", slots |-> Fill(qset, NullSlot)]

\* kmalloc(quantum): the bytes are not cleared
NewQuantum(quantum) == [p |-> "live", bytes |-> Fill(quantum, Uninit)]

\* the outcome of a statement group
Res(M, l) == [M |-> M, l |-> l]

\* an access outside defined behaviour: the behaviour is cut here
Undefined(M, l, tag) == Res([M EXCEPT !.ub = @ \cup {tag}], l)


(***************************************************************************)
(* The locals of a calling thread.  f_pos is the position of the caller's *)
(* open file; count, ubuf and efault are the arguments of the call (ubuf  *)
(* holds the bytes of the user buffer, efault says that the user pointer  *)
(* is one copy_to_user / copy_from_user cannot access); allocLeft is the  *)
(* number of allocations that succeed in this call before kmalloc starts  *)
(* to fail (NoFail: all of them).                                         *)
(***************************************************************************)
IdleLocals ==
  [pc |-> "idle", op |-> "none", f_pos |-> 0, count |-> 0, ubuf |-> <<>>,
   efault |-> FALSE, allocLeft |-> NoFail, f_flags |-> "O_RDWR", arg_pos |-> 0, arg_count |-> 0,
   quantum |-> 0, qset |-> 0, itemsize |-> 0, item |-> 0, s_pos |-> 0,
   q_pos |-> 0, dptr |-> NULL, retval |-> 0, qs |-> NULL, n |-> 0,
   cont |-> "", next |-> NULL]

\* the function returns: its frame is gone, the result stays with the caller
Return(l, rv) ==
  [IdleLocals EXCEPT !.op = l.op, !.f_flags = l.f_flags, !.f_pos = l.f_pos,
                     !.ubuf = l.ubuf,
                     !.efault = l.efault, !.arg_pos = l.arg_pos,
                     !.arg_count = l.arg_count, !.retval = rv]

(***************************************************************************)
(* scull_follow(dev, n), entered with l.n = n and l.cont the label of the *)
(* caller's next statement; the result is left in l.dptr.                 *)
(***************************************************************************)
\* lines 66-74: the head of the list, allocated if need be
follow_head(M, l) ==
  IF M.dev.data # NULL
  THEN Res(M, [l EXCEPT !.qs = M.dev.data, !.pc = "f_loop"])
  ELSE LET id == kmalloc_qset(M.heap, l)
       IN IF id = NULL
          THEN Res(M, [l EXCEPT !.dptr = NULL, !.qs = NULL, !.n = 0, !.pc = l.cont])
          ELSE Res([M EXCEPT !.dev.data = id, !.heap.nodes[id] = ZeroNode],
                   [kmalloc_used(l) EXCEPT !.qs = id, !.pc = "f_loop"])

\* lines 77-87: one turn of while (n--), or the return of qs
follow_loop(M, l) ==
  IF l.n = 0
  THEN Res(M, [l EXCEPT !.dptr = l.qs, !.qs = NULL, !.pc = l.cont])
  ELSE IF ~M.heap.nodes[l.qs].live
  THEN Undefined(M, l, "use_after_free")
  ELSE IF M.heap.nodes[l.qs].next # NULL
  THEN Res(M, [l EXCEPT !.qs = M.heap.nodes[l.qs].next, !.n = @ - 1])
  ELSE LET id == kmalloc_qset(M.heap, l)
       IN IF id = NULL
          THEN Res(M, [l EXCEPT !.dptr = NULL, !.qs = NULL, !.n = 0, !.pc = l.cont])
          ELSE Res([M EXCEPT !.heap.nodes[l.qs].next = id,
                             !.heap.nodes[id] = ZeroNode],
                   [kmalloc_used(l) EXCEPT !.qs = id, !.n = @ - 1])

(***************************************************************************)
(* The offset translation of lines 124-127 and 163-166.                   *)
(***************************************************************************)
\* the slot is taken from the position, not from the rest within the node
translate_no_rest(l) ==
  [l EXCEPT !.item = l.f_pos \div l.itemsize,
            !.s_pos = l.f_pos \div l.quantum,
            !.q_pos = l.f_pos % l.quantum]

\* the quotient and the remainder of rest taken for each other
translate_swapped(l) ==
  LET rest == l.f_pos % l.itemsize
  IN [l EXCEPT !.item = l.f_pos \div l.itemsize,
               !.s_pos = rest % l.quantum,
               !.q_pos = rest \div l.quantum]

translate(l) ==
  LET rest == l.f_pos % l.itemsize
  IN [l EXCEPT !.item = l.f_pos \div l.itemsize,
               !.s_pos = rest \div l.quantum,
               !.q_pos = rest % l.quantum]

\* a read that does not stop at the end of the device
at_eof_never(f_pos, size) == FALSE

\* line 118: the position is at or past the end of the device
at_eof(f_pos, size) == f_pos >= size

\* the read is not cut at the size of the device
size_clamp_none(count, f_pos, size) == count

\* lines 121-122: count is a size_t, the difference wraps
size_clamp(count, f_pos, size) ==
  IF f_pos + count > size THEN (size - f_pos) % SIZE_T_MOD ELSE count

\* the transfer is not cut at the end of the quantum
quantum_clamp_none(count, quantum, q_pos) == count

\* lines 135-136 and 184: only up to the end of this quantum
quantum_clamp(count, quantum, q_pos) ==
  IF count > quantum - q_pos THEN quantum - q_pos ELSE count

\* the size follows the position of every write
size_update_always(size, f_pos) == f_pos

\* the size set one past the position
size_update_past(size, f_pos) == IF size < f_pos + 1 THEN f_pos + 1 ELSE size

\* lines 195-196
size_update(size, f_pos) == IF size < f_pos THEN f_pos ELSE size

(***************************************************************************)
(* scull_read                                                              *)
(***************************************************************************)
\* retval starts as the error of scull_write
read_init_enomem(M, l) ==
  Res(M, [l EXCEPT !.quantum = M.dev.quantum, !.qset = M.dev.qset,
                   !.itemsize = M.dev.quantum * M.dev.qset,
                   !.retval = -ENOMEM, !.pc = "r_down"])

\* lines 108-113, before the semaphore is taken
read_init(M, l) ==
  Res(M, [l EXCEPT !.quantum = M.dev.quantum, !.qset = M.dev.qset,
                   !.itemsize = M.dev.quantum * M.dev.qset,
                   !.retval = 0, !.pc = "r_down"])

\* line 115, the semaphore is free
read_down(M, l) ==
  Res([M EXCEPT !.dev.sem = @ - 1], [l EXCEPT !.pc = "r_eof"])

\* line 118
read_eof(M, l) ==
  Res(M, [l EXCEPT !.pc = IF at_eof(l.f_pos, M.dev.size) THEN "r_out" ELSE "r_clamp"])

\* lines 121-129
read_clamp(M, l) ==
  LET c == size_clamp(l.count, l.f_pos, M.dev.size)
      t == translate(l)
  IN Res(M, [t EXCEPT !.count = c, !.n = t.item, !.cont = "r_hole", !.pc = "f_head"])

\* lines 132-144
read_copy(M, l) ==
  IF l.dptr = NULL THEN Res(M, [l EXCEPT !.pc = "r_out"])
  ELSE IF ~M.heap.nodes[l.dptr].live THEN Undefined(M, l, "use_after_free")
  ELSE LET a == M.heap.nodes[l.dptr].data IN
  IF a.p = "null" THEN Res(M, [l EXCEPT !.pc = "r_out"])
  ELSE IF l.s_pos >= Len(a.slots) THEN Undefined(M, l, "out_of_bounds")
  ELSE LET b == a.slots[l.s_pos + 1] IN
  IF b.p = "null" THEN Res(M, [l EXCEPT !.pc = "r_out"])
  ELSE LET c == quantum_clamp(l.count, l.quantum, l.q_pos) IN
  IF l.efault /\ c > 0 THEN Res(M, [l EXCEPT !.count = c, !.retval = -EFAULT, !.pc = "r_out"])
  ELSE IF c > 0 /\ b.p = "freed" THEN Undefined(M, l, "use_after_free")
  ELSE IF c > 0 /\ l.q_pos + c > Len(b.bytes) THEN Undefined(M, l, "out_of_bounds")
  ELSE Res(M, [l EXCEPT !.count = c,
                        !.ubuf = SubSeq(b.bytes, l.q_pos + 1, l.q_pos + c),
                        !.f_pos = @ + c, !.retval = c, !.pc = "r_out"])

\* an exit that returns with the semaphore still held
return_without_up(M, l) == Res(M, Return(l, l.retval))

\* lines 146-148 and 198-200
up_return(M, l) ==
  Res([M EXCEPT !.dev.sem = @ + 1], Return(l, l.retval))

\* an interrupted wait that goes through out: and calls up
interrupted_up(M, l) ==
  Res([M EXCEPT !.dev.sem = @ + 1], Return(l, -ERESTARTSYS))

\* lines 115-116 and 160: the wait for the semaphore is interrupted
interrupted(M, l) == Res(M, Return(l, -ERESTARTSYS))

(***************************************************************************)
(* scull_write                                                             *)
(***************************************************************************)
\* lines 153-158, before the semaphore is taken
write_init(M, l) ==
  Res(M, [l EXCEPT !.quantum = M.dev.quantum, !.qset = M.dev.qset,
                   !.itemsize = M.dev.quantum * M.dev.qset,
                   !.retval = -ENOMEM, !.pc = "w_down"])

\* lines 160-168, the semaphore is free
write_down(M, l) ==
  LET t == translate(l)
  IN Res([M EXCEPT !.dev.sem = @ - 1],
         [t EXCEPT !.n = t.item, !.cont = "w_array", !.pc = "f_head"])

\* a write that gives its node back when the array cannot be allocated
write_array_rollback(M, l) ==
  IF l.dptr = NULL THEN Res(M, [l EXCEPT !.pc = "w_out"])
  ELSE IF ~M.heap.nodes[l.dptr].live THEN Undefined(M, l, "use_after_free")
  ELSE IF M.heap.nodes[l.dptr].data.p # "null" THEN Res(M, [l EXCEPT !.pc = "w_quantum"])
  ELSE IF ~kmalloc_ok(l)
  THEN Res([M EXCEPT !.heap.nodes[l.dptr] = DeadNode], [l EXCEPT !.pc = "w_out"])
  ELSE Res([M EXCEPT !.heap.nodes[l.dptr].data = ZeroArr(l.qset)],
           [kmalloc_used(l) EXCEPT !.pc = "w_quantum"])

\* lines 170-176: the array of pointers of the node
write_array(M, l) ==
  IF l.dptr = NULL THEN Res(M, [l EXCEPT !.pc = "w_out"])
  ELSE IF ~M.heap.nodes[l.dptr].live THEN Undefined(M, l, "use_after_free")
  ELSE IF M.heap.nodes[l.dptr].data.p # "null" THEN Res(M, [l EXCEPT !.pc = "w_quantum"])
  ELSE IF ~kmalloc_ok(l) THEN Res(M, [l EXCEPT !.pc = "w_out"])
  ELSE Res([M EXCEPT !.heap.nodes[l.dptr].data = ZeroArr(l.qset)],
           [kmalloc_used(l) EXCEPT !.pc = "w_quantum"])

\* lines 178-181: the quantum of the slot
write_quantum(M, l) ==
  IF ~M.heap.nodes[l.dptr].live THEN Undefined(M, l, "use_after_free")
  ELSE LET a == M.heap.nodes[l.dptr].data IN
  IF a.p = "null" THEN Undefined(M, l, "null_dereference")
  ELSE IF l.s_pos >= Len(a.slots) THEN Undefined(M, l, "out_of_bounds")
  ELSE IF a.slots[l.s_pos + 1].p # "null" THEN Res(M, [l EXCEPT !.pc = "w_copy"])
  ELSE IF ~kmalloc_ok(l) THEN Res(M, [l EXCEPT !.pc = "w_out"])
  ELSE Res([M EXCEPT !.heap.nodes[l.dptr].data.slots[l.s_pos + 1] = NewQuantum(l.quantum)],
           [kmalloc_used(l) EXCEPT !.pc = "w_copy"])

\* lines 184-196
write_copy(M, l) ==
  IF ~M.heap.nodes[l.dptr].live THEN Undefined(M, l, "use_after_free")
  ELSE LET a == M.heap.nodes[l.dptr].data IN
  IF a.p = "null" THEN Undefined(M, l, "null_dereference")
  ELSE IF l.s_pos >= Len(a.slots) THEN Undefined(M, l, "out_of_bounds")
  ELSE LET b == a.slots[l.s_pos + 1]
           c == quantum_clamp(l.count, l.quantum, l.q_pos)
       IN
  IF l.efault /\ c > 0 THEN Res(M, [l EXCEPT !.count = c, !.retval = -EFAULT, !.pc = "w_out"])
  ELSE IF c > 0 /\ b.p = "null" THEN Undefined(M, l, "null_dereference")
  ELSE IF c > 0 /\ b.p = "freed" THEN Undefined(M, l, "use_after_free")
  ELSE IF c > 0 /\ l.q_pos + c > Len(b.bytes) THEN Undefined(M, l, "out_of_bounds")
  ELSE LET np == l.f_pos + c
           M1 == IF c = 0 THEN M
                 ELSE [M EXCEPT !.heap.nodes[l.dptr].data.slots[l.s_pos + 1].bytes =
                         [i \in 1..Len(@) |->
                            IF i > l.q_pos /\ i <= l.q_pos + c
                            THEN l.ubuf[i - l.q_pos] ELSE @[i]]]
       IN Res([M1 EXCEPT !.dev.size = size_update(@, np)],
              [l EXCEPT !.count = c, !.f_pos = np, !.retval = c, !.pc = "w_out"])

(***************************************************************************)
(* scull_open and scull_trim                                               *)
(***************************************************************************)
\* lines 96-103
open_flags(M, l) ==
  IF l.f_flags = "O_WRONLY" THEN Res(M, [l EXCEPT !.pc = "t_init"])
  ELSE Res(M, Return(l, 0))

\* a scull_trim that takes the semaphore before it walks the list
trim_init_down(M, l) ==
  Res([M EXCEPT !.dev.sem = @ - 1],
      [l EXCEPT !.qset = M.dev.qset, !.dptr = M.dev.data, !.pc = "t_node"])

\* lines 41 and 43 (dptr = dev->data)
trim_init(M, l) ==
  Res(M, [l EXCEPT !.qset = M.dev.qset, !.dptr = M.dev.data, !.pc = "t_node"])

\* lines 43-44: the loop test and the test of dptr->data
trim_node(M, l) ==
  IF l.dptr = NULL THEN Res(M, [l EXCEPT !.pc = "t_reset"])
  ELSE IF ~M.heap.nodes[l.dptr].live THEN Undefined(M, l, "use_after_free")
  ELSE Res(M, [l EXCEPT !.pc = IF M.heap.nodes[l.dptr].data.p # "null"
                                THEN "t_quanta" ELSE "t_next"])

\* line 45: kfree of every slot, i < qset; kfree(NULL) does nothing
trim_quanta(M, l) ==
  IF ~M.heap.nodes[l.dptr].live THEN Undefined(M, l, "use_after_free")
  ELSE LET a == M.heap.nodes[l.dptr].data IN
  IF a.p = "null" THEN Undefined(M, l, "null_dereference")
  ELSE IF l.qset > Len(a.slots) THEN Undefined(M, l, "out_of_bounds")
  ELSE IF \E i \in 1..l.qset : a.slots[i].p = "freed" THEN Undefined(M, l, "double_free")
  ELSE Res([M EXCEPT !.heap.nodes[l.dptr].data.slots =
                       [i \in 1..Len(@) |->
                          IF i <= l.qset /\ @[i].p = "live" THEN FreedSlot ELSE @[i]]],
           [l EXCEPT !.pc = "t_array"])

\* lines 46-47; a quantum still in the array is lost with it
trim_array(M, l) ==
  IF ~M.heap.nodes[l.dptr].live THEN Undefined(M, l, "use_after_free")
  ELSE LET a == M.heap.nodes[l.dptr].data IN
  Res([M EXCEPT !.heap.nodes[l.dptr].data = NullArr,
                !.heap.lost = @ \/ (\E i \in 1..Len(a.slots) : a.slots[i].p = "live")],
      [l EXCEPT !.pc = "t_next"])

\* a scull_trim that walks the list and leaves its nodes allocated
trim_next_no_kfree(M, l) ==
  IF ~M.heap.nodes[l.dptr].live THEN Undefined(M, l, "use_after_free")
  ELSE Res(M, [l EXCEPT !.dptr = M.heap.nodes[l.dptr].next, !.pc = "t_node"])

\* lines 49-50 and the dptr = next of line 43; an array still in the node
\* is lost with it
trim_next(M, l) ==
  IF ~M.heap.nodes[l.dptr].live THEN Undefined(M, l, "use_after_free")
  ELSE Res([M EXCEPT !.heap.nodes[l.dptr] = DeadNode,
                     !.heap.lost = @ \/ M.heap.nodes[l.dptr].data.p # "null"],
           [l EXCEPT !.dptr = M.heap.nodes[l.dptr].next, !.pc = "t_node"])

\* lines 53-58, and the return of scull_open
trim_reset(M, l) ==
  Res([M EXCEPT !.dev.size = 0, !.dev.quantum = SCULL_QUANTUM,
                !.dev.qset = SCULL_QSET, !.dev.data = NULL],
      Return(l, 0))

(***************************************************************************)
(* One statement group of the thread with locals l.                       *)
(***************************************************************************)
Exec(M, l) ==
  CASE l.pc = "r_init" -> read_init(M, l)
    [] l.pc = "r_down" -> read_down(M, l)
    [] l.pc = "r_eof" -> read_eof(M, l)
    [] l.pc = "r_clamp" -> read_clamp(M, l)
    [] l.pc = "r_hole" -> read_copy(M, l)
    [] l.pc = "r_out" -> up_return(M, l)
    [] l.pc = "w_init" -> write_init(M, l)
    [] l.pc = "w_down" -> write_down(M, l)
    [] l.pc = "w_array" -> write_array(M, l)
    [] l.pc = "w_quantum" -> write_quantum(M, l)
    [] l.pc = "w_copy" -> write_copy(M, l)
    [] l.pc = "w_out" -> up_return(M, l)
    [] l.pc = "f_head" -> follow_head(M, l)
    [] l.pc = "f_loop" -> follow_loop(M, l)
    [] l.pc = "o_open" -> open_flags(M, l)
    [] l.pc = "t_init" -> trim_init(M, l)
    [] l.pc = "t_node" -> trim_node(M, l)
    [] l.pc = "t_quanta" -> trim_quanta(M, l)
    [] l.pc = "t_array" -> trim_array(M, l)
    [] l.pc = "t_next" -> trim_next(M, l)
    [] l.pc = "t_reset" -> trim_reset(M, l)

\* a semaphore that lets every thread through
never_blocked(M, l) == FALSE

\* down_interruptible: the thread sleeps while the semaphore is held
Blocked(M, l) == l.pc \in {"r_down", "w_down"} /\ M.dev.sem <= 0

\* the call of l run alone to its return
RECURSIVE Run(_, _)
Run(M, l) ==
  IF l.pc = "idle" \/ M.ub # {} \/ Blocked(M, l) THEN Res(M, l)
  ELSE LET r == Exec(M, l) IN Run(r.M, r.l)

\* the frames a call starts with
read_call(l, pos, count, fault, fail) ==
  [IdleLocals EXCEPT !.pc = "r_init", !.op = "read", !.f_flags = l.f_flags,
                     !.f_pos = pos, !.count = count, !.efault = fault,
                     !.allocLeft = fail, !.arg_pos = pos, !.arg_count = count]

write_call(l, pos, src, fault, fail) ==
  [IdleLocals EXCEPT !.pc = "w_init", !.op = "write", !.f_flags = l.f_flags,
                     !.f_pos = pos,
                     !.count = Len(src), !.ubuf = src, !.efault = fault,
                     !.allocLeft = fail, !.arg_pos = pos, !.arg_count = Len(src)]

\* a new struct file: its position is 0
open_call(l, flags) ==
  [IdleLocals EXCEPT !.pc = "o_open", !.op = "open", !.f_pos = 0, !.f_flags = flags]

(***************************************************************************)
(* The state machine.                                                      *)
(***************************************************************************)
Shared == [dev |-> dev, heap |-> heap, ub |-> ub]

Apply(c, r) ==
  /\ dev' = r.M.dev
  /\ heap' = r.M.heap
  /\ ub' = r.M.ub
  /\ loc' = [loc EXCEPT ![c] = r.l]
  /\ UNCHANGED param

\* lines 292-298 of scull_init_module: the device is cleared, takes the
\* load-time scull_quantum and scull_qset, and its semaphore is free
InitDev(p) ==
  /\ param = p
  /\ dev = [size |-> 0, quantum |-> p.quantum, qset |-> p.qset, data |-> NULL, sem |-> 1]
  /\ heap = EmptyHeap
  /\ ub = {}
  /\ loc = [c \in Callers |-> IdleLocals]

Running(c) == loc[c].pc # "idle" /\ ub = {}
Idle(c) == loc[c].pc = "idle" /\ ub = {}

\* the calls the VFS makes; it refuses read on a file opened O_WRONLY
Read(c, pos, count, fault, fail) ==
  /\ Idle(c)
  /\ loc[c].f_flags # "O_WRONLY"
  /\ loc' = [loc EXCEPT ![c] = read_call(loc[c], pos, count, fault, fail)]
  /\ UNCHANGED <<dev, heap, ub, param>>

Write(c, pos, src, fault, fail) ==
  /\ Idle(c)
  /\ loc' = [loc EXCEPT ![c] = write_call(loc[c], pos, src, fault, fail)]
  /\ UNCHANGED <<dev, heap, ub, param>>

Open(c, flags) ==
  /\ Idle(c)
  /\ loc' = [loc EXCEPT ![c] = open_call(loc[c], flags)]
  /\ UNCHANGED <<dev, heap, ub, param>>

ReadStep(c) ==
  /\ Running(c)
  /\ loc[c].pc \in {"r_init", "r_eof", "r_clamp", "r_hole"}
  /\ Apply(c, Exec(Shared, loc[c]))

WriteStep(c) ==
  /\ Running(c)
  /\ loc[c].pc \in {"w_init", "w_array", "w_quantum", "w_copy"}
  /\ Apply(c, Exec(Shared, loc[c]))

Down(c) ==
  /\ Running(c)
  /\ loc[c].pc \in {"r_down", "w_down"}
  /\ ~Blocked(Shared, loc[c])
  /\ Apply(c, Exec(Shared, loc[c]))

Interrupt(c) ==
  /\ Running(c)
  /\ Blocked(Shared, loc[c])
  /\ Apply(c, interrupted(Shared, loc[c]))

Follow(c) ==
  /\ Running(c)
  /\ loc[c].pc \in {"f_head", "f_loop"}
  /\ Apply(c, Exec(Shared, loc[c]))

Up(c) ==
  /\ Running(c)
  /\ loc[c].pc \in {"r_out", "w_out"}
  /\ Apply(c, Exec(Shared, loc[c]))

OpenStep(c) ==
  /\ Running(c)
  /\ loc[c].pc = "o_open"
  /\ Apply(c, Exec(Shared, loc[c]))

TrimStep(c) ==
  /\ Running(c)
  /\ loc[c].pc \in {"t_init", "t_node", "t_quanta", "t_array", "t_next", "t_reset"}
  /\ Apply(c, Exec(Shared, loc[c]))

Step(c) ==
  \/ ReadStep(c)
  \/ WriteStep(c)
  \/ Down(c)
  \/ Interrupt(c)
  \/ Follow(c)
  \/ Up(c)
  \/ OpenStep(c)
  \/ TrimStep(c)

(***************************************************************************)
(* Spec: two callers run open, read and write against the device, their   *)
(* statements interleaved; the module was loaded with the compiled-in     *)
(* defaults or with scull_quantum=1 scull_qset=1.                         *)
(***************************************************************************)
Params == {[quantum |-> SCULL_QUANTUM, qset |-> SCULL_QSET], [quantum |-> 1, qset |-> 1]}
Positions == 0..MaxPos
Counts == 0..MaxCount
Fails == {NoFail} \cup (0..MaxFail)
OpenFlags == {"O_RDWR", "O_WRONLY"}

\* the harness counts the calls it has issued
Issue == h.calls < MaxCalls /\ h' = [h EXCEPT !.calls = @ + 1] /\ UNCHANGED snap

Init ==
  /\ \E p \in Params : InitDev(p)
  /\ snap = <<>>
  /\ h = [calls |-> 0]

Next ==
  \/ \E c \in Callers, pos \in {0, 1}, count \in {1, 2} :
       Read(c, pos, count, FALSE, NoFail) /\ Issue
  \/ \E c \in Callers, pos \in {0, 1}, b \in {1} :
       Write(c, pos, <<b>>, FALSE, NoFail) /\ Issue
  \/ \E c \in Callers, fl \in OpenFlags :
       Open(c, fl) /\ Issue
  \/ \E c \in Callers : Step(c) /\ UNCHANGED <<snap, h>>

Spec == Init /\ [][Next]_vars

(***************************************************************************)
(* SpecSeq: the calls of one caller, one after the other; a call runs from *)
(* its entry to its return in one step, and the caller then takes the     *)
(* result before it calls again.  The positions, lengths, sources, bad    *)
(* user pointers and allocation failures are all those of the bounds.     *)
(***************************************************************************)
\* the whole call, run with no other thread in between
scull_read(c, pos, count, fault, fail) ==
  /\ Idle(c)
  /\ loc[c].op = "none"
  /\ loc[c].f_flags # "O_WRONLY"
  /\ Apply(c, Run(Shared, read_call(loc[c], pos, count, fault, fail)))

scull_write(c, pos, src, fault, fail) ==
  /\ Idle(c)
  /\ loc[c].op = "none"
  /\ Apply(c, Run(Shared, write_call(loc[c], pos, src, fault, fail)))

scull_open(c, flags) ==
  /\ Idle(c)
  /\ loc[c].op = "none"
  /\ Apply(c, Run(Shared, open_call(loc[c], flags)))

\* back in user space: the caller has taken the result of the call
Taken(c) ==
  /\ Idle(c)
  /\ loc[c].op # "none"
  /\ loc' = [loc EXCEPT ![c] = [IdleLocals EXCEPT !.f_flags = loc[c].f_flags]]
  /\ UNCHANGED <<dev, heap, ub, param>>

\* the source of a write: n bytes that start with b and differ from their
\* neighbours
Pattern(b, n) == [i \in 1..n |-> ((b + i) % MaxByte) + 1]
Sources == {Pattern(b, n) : b \in Bytes, n \in Counts}
Faults == {<<FALSE, f>> : f \in Fails} \cup {<<TRUE, NoFail>>}
ParamsSeq == {[quantum |-> SCULL_QUANTUM, qset |-> SCULL_QSET], [quantum |-> 3, qset |-> 1]}

\* what the caller of SpecSeq keeps of its calls: the largest
\* position + bytes written of the successful writes since the last trim
Account(l, old) ==
  CASE l.op = "write" /\ l.retval >= 0 -> Max2(old, l.arg_pos + l.retval)
    [] l.op = "open" /\ l.f_flags = "O_WRONLY" -> 0
    [] OTHER -> old

\* and the number of nodes that were in the list when its last call, a
\* truncating open, was made
LiveNodes == Cardinality({id \in NodeIds : heap.nodes[id].live})

Seen ==
  /\ h' = [maxEnd |-> Account(loc'["a"], h.maxEnd),
           freed |-> IF loc'["a"].op = "open" /\ loc'["a"].f_flags = "O_WRONLY"
                     THEN LiveNodes ELSE 0]
  /\ UNCHANGED snap

InitSeq ==
  /\ \E p \in ParamsSeq : InitDev(p)
  /\ snap = <<>>
  /\ h = [maxEnd |-> 0, freed |-> 0]

NextSeq ==
  \/ \E pos \in Positions, count \in Counts, fault \in BOOLEAN :
       scull_read("a", pos, count, fault, NoFail) /\ Seen
  \/ \E pos \in Positions, src \in Sources, ff \in Faults :
       scull_write("a", pos, src, ff[1], ff[2]) /\ Seen
  \/ \E fl \in OpenFlags :
       scull_open("a", fl) /\ Seen
  \/ Taken("a") /\ UNCHANGED <<snap, h>>

SpecSeq == InitSeq /\ [][NextSeq]_vars

(***************************************************************************)
(* The store as its users see it: the node at a place of the list, and    *)
(* the byte at an offset, under the device's quantum and qset.            *)
(***************************************************************************)
Absent == -1

RECURSIVE Nth(_, _, _)
Nth(hp, id, i) ==
  IF id = NULL \/ i = 0 THEN id ELSE Nth(hp, hp.nodes[id].next, i - 1)

\* the slot that holds offset p: NullSlot when the node, the array or the
\* quantum is not there
SlotAt(d, hp, p) ==
  LET itemsize == d.quantum * d.qset
      id == Nth(hp, d.data, p \div itemsize)
      s == (p % itemsize) \div d.quantum
  IN IF id = NULL THEN NullSlot
     ELSE IF hp.nodes[id].data.p = "null" THEN NullSlot
     ELSE IF s >= Len(hp.nodes[id].data.slots) THEN NullSlot
     ELSE hp.nodes[id].data.slots[s + 1]

ByteAt(d, hp, p) ==
  LET b == SlotAt(d, hp, p)
  IN IF b.p = "live" /\ (p % d.quantum) < Len(b.bytes)
     THEN b.bytes[(p % d.quantum) + 1] ELSE Absent

\* the step is the call of op by caller c, from its entry on
CallOf(c, op) == loc[c].op = "none" /\ loc'[c].op = op

\* the call of c has returned, and nothing undefined was done
Returned(c) == loc[c].pc = "idle" /\ ub = {}

\* the step is scull_trim run by c through an open for writing only
TrimOf(c) == CallOf(c, "open") /\ loc'[c].f_flags = "O_WRONLY"

(***************************************************************************)
(* C4: after any sequence of reads, writes and trims the size is the      *)
(* largest position + bytes written of the successful writes since the    *)
(* last trim (0 without one); no write lowers it and trim sets it to 0.   *)
(***************************************************************************)
C4_SizeIsMaxEnd ==
  [][/\ dev'.size = h'.maxEnd
     /\ CallOf("a", "write") => dev'.size >= dev.size
     /\ TrimOf("a") => dev'.size = 0]_vars

\* a successful write that ends before the size reached by an earlier one
C4_Witness ==
  /\ loc["a"].op = "write"
  /\ loc["a"].retval > 0
  /\ loc["a"].arg_pos + loc["a"].retval < dev.size
  /\ dev.size = h.maxEnd

(***************************************************************************)
(* C7 as claimed: a read of L bytes at P returns 0 and leaves P when      *)
(* P >= size; when P < size and the quantum of P is there it returns      *)
(* n = min(L, size - P, Q - P mod Q), delivers the n bytes at P..P+n-1    *)
(* and moves the position to P+n.                                         *)
(***************************************************************************)
ReadCount(d, P, L) == Min2(L, Min2(d.size - P, d.quantum - (P % d.quantum)))

ReadAtEnd(c) ==
  loc'[c].arg_pos >= dev.size =>
    Returned(c)' /\ loc'[c].retval = 0 /\ loc'[c].f_pos = loc'[c].arg_pos

ReadDelivers(c) ==
  LET P == loc'[c].arg_pos
      n == ReadCount(dev, P, loc'[c].arg_count)
  IN /\ Returned(c)'
     /\ loc'[c].retval = n
     /\ loc'[c].f_pos = P + n
     /\ loc'[c].ubuf = [i \in 1..n |-> ByteAt(dev, heap, P + i - 1)]

HasQuantum(c) ==
  loc'[c].arg_pos < dev.size /\ SlotAt(dev, heap, loc'[c].arg_pos).p = "live"

C7_AsClaimed ==
  [][CallOf("a", "read") =>
       /\ ReadAtEnd("a")
       /\ HasQuantum("a") => ReadDelivers("a")]_vars

(***************************************************************************)
(* C7, amended: the same, for a read whose transfer to the caller's       *)
(* buffer does not fault.                                                  *)
(***************************************************************************)
C7_ReadResult ==
  [][CallOf("a", "read") =>
       /\ ReadAtEnd("a")
       /\ (HasQuantum("a") /\ ~loc'["a"].efault) => ReadDelivers("a")]_vars

\* a read cut at the end of its quantum, before the size and the length asked
C7_Witness ==
  /\ loc["a"].op = "read"
  /\ Returned("a")
  /\ ~loc["a"].efault
  /\ loc["a"].retval > 0
  /\ loc["a"].retval < loc["a"].arg_count
  /\ loc["a"].f_pos < dev.size
  /\ loc["a"].ubuf \in [1..loc["a"].retval -> Bytes]

(***************************************************************************)
(* C8: a read at P < size where the node, its array or the quantum was    *)
(* never allocated returns 0, with no error, and leaves the position.     *)
(***************************************************************************)
C8_HoleReadsZero ==
  [][(/\ CallOf("a", "read")
      /\ loc'["a"].arg_pos < dev.size
      /\ SlotAt(dev, heap, loc'["a"].arg_pos).p = "null")
     => /\ Returned("a")'
        /\ loc'["a"].retval = 0
        /\ loc'["a"].f_pos = loc'["a"].arg_pos]_vars

\* a read below the size, in a node that has no array, has returned 0
C8_Witness ==
  /\ loc["a"].op = "read"
  /\ Returned("a")
  /\ loc["a"].arg_count > 0
  /\ loc["a"].arg_pos < dev.size
  /\ dev.data # NULL
  /\ Nth(heap, dev.data, loc["a"].arg_pos \div (dev.quantum * dev.qset)) # NULL
  /\ heap.nodes[Nth(heap, dev.data, loc["a"].arg_pos \div (dev.quantum * dev.qset))].data.p = "null"
  /\ loc["a"].retval = 0

(***************************************************************************)
(* C10 as claimed: after trim the size, quantum, qset and list of the     *)
(* device are what scull_init_module made them, for every scull_quantum   *)
(* and scull_qset the module was loaded with.                             *)
(***************************************************************************)
C10_TrimRestoresConstruction ==
  [][TrimOf("a") =>
       /\ Returned("a")'
       /\ dev' = [size |-> 0, quantum |-> param.quantum, qset |-> param.qset,
                  data |-> NULL, sem |-> 1]
       /\ heap' = EmptyHeap]_vars

(***************************************************************************)
(* SpecLoop: a caller writes the bytes of data from position start, each  *)
(* call with what is left of them at the position the last one reached,   *)
(* and then reads them back the same way.  Before that it may have        *)
(* written once somewhere else.  The module was loaded with the defaults, *)
(* with quantum 1, or with quantum 4 and qset 2 to write "ABCDEFGHIJ".    *)
(***************************************************************************)
ABCDEFGHIJ == [i \in 1..10 |-> i]
Strings == UNION {[1..n -> Bytes] : n \in 0..MaxLen}

LoopInputs ==
  {<<[quantum |-> SCULL_QUANTUM, qset |-> SCULL_QSET], d>> : d \in Strings}
  \cup {<<[quantum |-> 1, qset |-> 2], d>> : d \in Strings}
  \cup {<<[quantum |-> 4, qset |-> 2], ABCDEFGHIJ>>}

InitLoop ==
  /\ \E in \in LoopInputs, st \in {0, 1} :
       /\ InitDev(in[1])
       /\ h = [data |-> in[2], start |-> st, pre |-> FALSE, wpos |-> 0,
               got |-> <<>>, rets |-> <<>>]
  /\ snap = <<>>

LoopPrefill ==
  /\ ~h.pre
  /\ h.rets = <<>>
  /\ \E pos \in {0, MaxPos - 1} :
       scull_write("a", pos, Pattern(1, MaxCount), FALSE, NoFail)
  /\ h' = [h EXCEPT !.pre = TRUE]
  /\ UNCHANGED snap

LoopWrite ==
  /\ h.wpos < Len(h.data)
  /\ scull_write("a", h.start + h.wpos, SubSeq(h.data, h.wpos + 1, Len(h.data)),
                 FALSE, NoFail)
  /\ h' = [h EXCEPT !.pre = TRUE,
                    !.wpos = IF loc'["a"].retval > 0 THEN @ + loc'["a"].retval ELSE @,
                    !.rets = Append(@, loc'["a"].retval)]
  /\ UNCHANGED snap

LoopRead ==
  /\ h.wpos = Len(h.data)
  /\ Len(h.got) < Len(h.data)
  /\ scull_read("a", h.start + Len(h.got), Len(h.data) - Len(h.got), FALSE, NoFail)
  /\ h' = [h EXCEPT !.got = IF loc'["a"].retval > 0 THEN @ \o loc'["a"].ubuf ELSE @]
  /\ UNCHANGED snap

NextLoop ==
  \/ LoopPrefill
  \/ LoopWrite
  \/ LoopRead
  \/ Taken("a") /\ UNCHANGED <<snap, h>>

SpecLoop == InitLoop /\ [][NextLoop]_vars

(***************************************************************************)
(* C5: round trip.  Writing a byte string from position 0 by looping      *)
(* write until all of it is accepted, then looping read from position 0,  *)
(* returns the string: every call of the two loops transfers at least one *)
(* byte, and the bytes read so far are the first bytes of the string.     *)
(* (Checked from position 1 too, and after an unrelated earlier write.)   *)
(***************************************************************************)
C5_RoundTrip ==
  /\ ub = {}
  /\ loc["a"].op \in {"read", "write"} => loc["a"].retval > 0
  /\ Len(h.got) <= Len(h.data)
  /\ h.got = SubSeq(h.data, 1, Len(h.got))

\* a string over three nodes of one-byte quanta has come back, from an
\* empty store and position 0
C5_Witness ==
  /\ param = [quantum |-> 1, qset |-> 2]
  /\ h.start = 0
  /\ Len(h.rets) = Len(h.data)
  /\ Len(h.data) = MaxLen
  /\ \E i, j \in 1..Len(h.data) : h.data[i] # h.data[j]
  /\ h.got = h.data
  /\ Nth(heap, dev.data, 2) # NULL

(***************************************************************************)
(* C6: a successful write of L bytes at P returns n = min(L, Q - P mod Q), *)
(* stores the first n source bytes at offsets P..P+n-1, all in one        *)
(* quantum, changes no other byte of the store, and moves the position to *)
(* P+n; with quantum 4 and qset 2, writing "ABCDEFGHIJ" from position 0   *)
(* takes three calls, which return 4, 4 and 2, and leaves the size 10.    *)
(***************************************************************************)
Offsets == 0..(MaxPos + MaxLen + MaxCount)

WriteStores(c) ==
  LET P == loc'[c].arg_pos
      n == Min2(loc'[c].arg_count, dev.quantum - (P % dev.quantum))
  IN /\ loc'[c].retval = n
     /\ loc'[c].f_pos = P + n
     /\ (P % dev.quantum) + n <= dev.quantum
     /\ \A i \in 1..n : ByteAt(dev', heap', P + i - 1) = loc'[c].ubuf[i]
     /\ \A q \in Offsets \ (P..(P + n - 1)) :
          \/ ByteAt(dev', heap', q) = ByteAt(dev, heap, q)
          \/ ByteAt(dev, heap, q) = Absent /\ ByteAt(dev', heap', q) = Uninit

C6_WriteResult ==
  [][/\ CallOf("a", "write") =>
          /\ Returned("a")'
          /\ loc'["a"].retval >= 0 => WriteStores("a")
     /\ (h'.data = ABCDEFGHIJ /\ h'.start = 0 /\ h'.wpos = Len(h'.data)) =>
          (h'.rets = <<4, 4, 2>> /\ dev'.size = 10)]_vars

\* "ABCDEFGHIJ" is in the store after the third write
C6_Witness ==
  /\ dev.quantum = 4
  /\ dev.qset = 2
  /\ loc["a"].op = "write"
  /\ Returned("a")
  /\ h.start = 0
  /\ h.rets = <<4, 4, 2>>
  /\ dev.size = 10
  /\ \A q \in 0..9 : ByteAt(dev, heap, q) = ABCDEFGHIJ[q + 1]

(***************************************************************************)
(* SpecRW: two callers read and write, their statements interleaved, and  *)
(* nobody opens the device for writing only.  snap keeps the device and   *)
(* the heap as they were when every caller was last idle, and the calls   *)
(* issued since; a caller issues one call at a time and waits for the     *)
(* other's call to return before it calls again.                          *)
(***************************************************************************)
AllIdle == \A c \in Callers : loc[c].pc = "idle"

Entered(c, frame) ==
  /\ h.calls < MaxCalls
  /\ snap.calls[c].op = "none" \/ AllIdle
  /\ h' = [h EXCEPT !.calls = @ + 1]
  /\ snap' = IF AllIdle
             THEN [M |-> Shared,
                   calls |-> [d \in Callers |-> IF d = c THEN frame ELSE IdleLocals]]
             ELSE [snap EXCEPT !.calls[c] = frame]

FaultsRW == {<<FALSE, NoFail>>, <<FALSE, 1>>}

InitRW ==
  /\ \E p \in {[quantum |-> SCULL_QUANTUM, qset |-> SCULL_QSET]} : InitDev(p)
  /\ snap = [M |-> Shared, calls |-> [d \in Callers |-> IdleLocals]]
  /\ h = [calls |-> 0]

NextRW ==
  \/ \E c \in Callers, pos \in {0, 1}, count \in {2}, fault \in BOOLEAN :
       /\ Read(c, pos, count, fault, NoFail)
       /\ Entered(c, read_call(loc[c], pos, count, fault, NoFail))
  \/ \E c \in Callers, pos \in {0, 1, MaxPos}, n \in {1, 2}, ff \in FaultsRW :
       /\ Write(c, pos, Pattern(IF c = "a" THEN 1 ELSE 2, n), ff[1], ff[2])
       /\ Entered(c, write_call(loc[c], pos, Pattern(IF c = "a" THEN 1 ELSE 2, n), ff[1], ff[2]))
  \/ \E c \in Callers :
       /\ \/ ReadStep(c)
          \/ WriteStep(c)
          \/ Down(c)
          \/ Interrupt(c)
          \/ Follow(c)
          \/ Up(c)
       /\ UNCHANGED <<snap, h>>

SpecRW == InitRW /\ [][NextRW]_vars

\* the call with frame l run alone on M; a call whose wait for the
\* semaphore was interrupted is, run alone, interrupted as well
Alone(M, l, rv) ==
  IF rv = -ERESTARTSYS THEN interrupted(M, l) ELSE Run(M, l)

\* the calls of snap run one after the other, c first and d second
Serial(c, d) ==
  LET r1 == IF snap.calls[c].op = "none" THEN Res(snap.M, loc[c])
            ELSE Alone(snap.M, snap.calls[c], loc[c].retval)
      r2 == IF snap.calls[d].op = "none" THEN Res(r1.M, loc[d])
            ELSE Alone(r1.M, snap.calls[d], loc[d].retval)
  IN [M |-> r2.M, l |-> [x \in {c, d} |-> IF x = c THEN r1.l ELSE r2.l]]

(***************************************************************************)
(* C1: when two read / write calls issued concurrently (no trim running)  *)
(* have both returned, the size, the list, the quanta and their bytes,    *)
(* and the return value, position and bytes delivered of each call, are   *)
(* those of the two calls run one after the other in one of the two       *)
(* orders.                                                                 *)
(***************************************************************************)
C1_Serializable ==
  AllIdle =>
    /\ ub = {}
    /\ \E c, d \in Callers :
         /\ c # d
         /\ Serial(c, d).M = Shared
         /\ Serial(c, d).l = [x \in {c, d} |-> loc[x]]

\* two writes that overlapped have returned, the second to take the
\* semaphore on top of what the first one stored
C1_Witness ==
  /\ AllIdle
  /\ \A c \in Callers : snap.calls[c].op = "write" /\ loc[c].retval > 0
  /\ loc["a"].arg_pos = loc["b"].arg_pos
  /\ loc["a"].ubuf # loc["b"].ubuf
  /\ Serial("a", "b").M # Serial("b", "a").M

(***************************************************************************)
(* Claims about a truncating open that runs beside a read or a write      *)
(* (Spec).                                                                 *)
(***************************************************************************)
TrimPcs == {"t_init", "t_node", "t_quanta", "t_array", "t_next", "t_reset"}
LockedPcs == {"r_eof", "r_clamp", "r_hole", "r_out", "f_head", "f_loop",
              "w_array", "w_quantum", "w_copy", "w_out"}

\* the step is one of caller c
StepOf(c) == loc[c].pc # "idle" /\ loc'[c] # loc[c]

\* c is in a read or a write, between down_interruptible and up
InFlight(c) == loc[c].op \in {"read", "write"} /\ loc[c].pc \in LockedPcs

\* the node c is about to use has been freed
HoldsFreedNode(c) ==
  \/ /\ loc[c].pc = "f_loop"
     /\ loc[c].n > 0
     /\ ~heap.nodes[loc[c].qs].live
  \/ /\ loc[c].pc \in {"r_hole", "w_array", "w_quantum", "w_copy"}
     /\ loc[c].dptr # NULL
     /\ ~heap.nodes[loc[c].dptr].live

\* the quantum c is about to copy from or to has been freed
HoldsFreedQuantum(c) ==
  /\ loc[c].pc \in {"r_hole", "w_copy"}
  /\ loc[c].dptr # NULL
  /\ heap.nodes[loc[c].dptr].live
  /\ heap.nodes[loc[c].dptr].data.p # "null"
  /\ loc[c].s_pos < Len(heap.nodes[loc[c].dptr].data.slots)
  /\ heap.nodes[loc[c].dptr].data.slots[loc[c].s_pos + 1].p = "freed"

(***************************************************************************)
(* C2: the trim of an open for writing only never takes the semaphore: no *)
(* step of scull_trim changes it, and scull_trim runs while a read or a   *)
(* write holds it.  (The race itself is the state of C2_Witness.)         *)
(***************************************************************************)
C2_TrimTakesNoLock ==
  [][\A c \in Callers :
       (StepOf(c) /\ loc[c].pc \in TrimPcs \cup {"o_open"}) =>
          /\ dev'.sem = dev.sem
          /\ loc'[c].pc \in TrimPcs \cup {"idle"}]_vars

\* a read or a write that holds the semaphore has used a node or a quantum
\* that the trim of the other caller freed after the semaphore was taken
C2_Witness ==
  /\ "use_after_free" \in ub
  /\ \E c, d \in Callers :
       /\ c # d
       /\ InFlight(c)
       /\ dev.sem = 0
       /\ HoldsFreedNode(c) \/ HoldsFreedQuantum(c)
       /\ loc[d].op = "open"
       /\ loc[d].f_flags = "O_WRONLY"
       /\ loc[d].pc \in (TrimPcs \ {"t_init"}) \cup {"idle"}

(***************************************************************************)
(* C3: no step of a caller that is in scull_read allocates or frees       *)
(* anything, or changes the size, the quantum, the qset, the list or the  *)
(* bytes stored.                                                           *)
(***************************************************************************)
C3_ReadNeverGrows ==
  [][\A c \in Callers :
       (StepOf(c) /\ loc[c].op = "read") =>
          /\ heap' = heap
          /\ [dev' EXCEPT !.sem = 0] = [dev EXCEPT !.sem = 0]]_vars

(***************************************************************************)
(* Claims about scull_trim run with no other call in flight (SpecSeq).    *)
(***************************************************************************)
EmptyStore == dev.data = NULL /\ dev.size = 0 /\ heap = EmptyHeap

\* what a read of count bytes at position 0 returns in the state M
ReadAtZero(M, count) ==
  Run(M, read_call(IdleLocals, 0, count, FALSE, NoFail)).l.retval

\* the state M after one more open for writing only
TrimAgain(M) == Run(M, open_call(IdleLocals, "O_WRONLY")).M

ChainIds(d, hp) == {Nth(hp, d.data, i) : i \in 0..MaxNodes} \ {NULL}

ArrayShaped(d, a) ==
  \/ a.p = "null"
  \/ /\ a.p = "live"
     /\ Len(a.slots) = d.qset
     /\ \A i \in 1..Len(a.slots) :
          \/ a.slots[i].p = "null"
          \/ a.slots[i].p = "live" /\ Len(a.slots[i].bytes) = d.quantum

WellFormed(d, hp) ==
  /\ Nth(hp, d.data, MaxNodes) = NULL
  /\ ChainIds(d, hp) = {id \in NodeIds : hp.nodes[id].live}
  /\ ~hp.lost
  /\ \A id \in ChainIds(d, hp) : ArrayShaped(d, hp.nodes[id].data)

\* every node and array of hp is still there in hp2, linked as it was
Retained(hp, hp2) ==
  \A id \in NodeIds : hp.nodes[id].live =>
    /\ hp2.nodes[id].live
    /\ hp.nodes[id].next # NULL => hp2.nodes[id].next = hp.nodes[id].next
    /\ hp.nodes[id].data.p # "null" =>
         /\ hp2.nodes[id].data.p = hp.nodes[id].data.p
         /\ Len(hp2.nodes[id].data.slots) = Len(hp.nodes[id].data.slots)
         /\ \A i \in 1..Len(hp.nodes[id].data.slots) :
              hp.nodes[id].data.slots[i].p # "null" =>
                hp2.nodes[id].data.slots[i].p = hp.nodes[id].data.slots[i].p

\* and what the quanta of hp hold is what they held
Untouched(hp, hp2) ==
  \A id \in NodeIds :
    (hp.nodes[id].live /\ hp.nodes[id].data.p # "null") =>
      hp2.nodes[id].data = hp.nodes[id].data

\* the write of caller c made once more, with memory to be had
Retry(M, l) == Run(M, write_call(IdleLocals, l.arg_pos, l.ubuf, FALSE, NoFail))

(***************************************************************************)
(* C11: a write in which kmalloc fails returns -ENOMEM with the position  *)
(* and the size unchanged; the nodes and arrays that were there or were   *)
(* allocated before the failure are linked in a well-formed list, none is *)
(* freed; and the same write made again with memory to be had keeps them  *)
(* and succeeds.                                                           *)
(***************************************************************************)
C11_NoMemKeepsChain ==
  [][(CallOf("a", "write") /\ loc'["a"].retval = -ENOMEM) =>
       /\ Returned("a")'
       /\ loc'["a"].f_pos = loc'["a"].arg_pos
       /\ [dev' EXCEPT !.data = NULL] = [dev EXCEPT !.data = NULL]
       /\ dev.data # NULL => dev'.data = dev.data
       /\ WellFormed(dev', heap')
       /\ Retained(heap, heap')
       /\ Untouched(heap, heap')
       /\ LET r == Retry(Shared', loc'["a"])
          IN /\ r.l.pc = "idle" /\ r.M.ub = {}
             /\ r.l.retval = Min2(loc'["a"].arg_count,
                                  dev.quantum - (loc'["a"].arg_pos % dev.quantum))
             /\ Retained(heap', r.M.heap)
             /\ WellFormed(r.M.dev, r.M.heap)]_vars

\* a write has failed for want of memory after it put two nodes in the
\* list, and they are there with no array yet
C11_Witness ==
  /\ Returned("a")
  /\ loc["a"].op = "write"
  /\ loc["a"].retval = -ENOMEM
  /\ dev.size = 0
  /\ LiveNodes = 2
  /\ \A id \in NodeIds : heap.nodes[id].data.p = "null"

(***************************************************************************)
(* C12 as claimed: a read or a write whose copy_to_user / copy_from_user  *)
(* fails returns -EFAULT and has changed nothing: the size, the position, *)
(* the quantum, the qset, and the nodes, arrays and quanta of the list    *)
(* are what they were before the call.                                    *)
(***************************************************************************)
C12_FaultMutatesNothing ==
  [][((CallOf("a", "read") \/ CallOf("a", "write")) /\ loc'["a"].retval = -EFAULT) =>
       /\ Returned("a")'
       /\ loc'["a"].f_pos = loc'["a"].arg_pos
       /\ dev' = dev
       /\ heap' = heap]_vars

(***************************************************************************)
(* C13: a read or write whose wait for the semaphore is interrupted       *)
(* returns -ERESTARTSYS, an outcome no other path produces; from its      *)
(* entry to that return it has changed neither the size, the quantum, the *)
(* qset, the list nor the semaphore, and its position is the one it was   *)
(* called with, so the call can be made again from the same state.        *)
(***************************************************************************)
C13_InterruptedTouchesNothing ==
  [][\A c \in Callers :
       /\ (StepOf(c) /\ loc[c].pc \in {"r_init", "w_init"}) =>
            (dev' = dev /\ heap' = heap /\ loc'[c].pc \in {"r_down", "w_down"})
       /\ (StepOf(c) /\ loc'[c].retval = -ERESTARTSYS) =>
            /\ loc[c].pc \in {"r_down", "w_down"}
            /\ dev.sem <= 0
            /\ loc'[c].pc = "idle"
            /\ dev' = dev
            /\ heap' = heap
            /\ ub' = {}
            /\ loc'[c].f_pos = snap.calls[c].f_pos
            /\ loc'[c].ubuf = snap.calls[c].ubuf
            /\ -ERESTARTSYS \notin {-ENOMEM, -EFAULT}
       /\ (StepOf(c) /\ loc[c].pc \in {"r_down", "w_down"}
             /\ loc'[c].retval # -ERESTARTSYS) =>
            (dev.sem = 1 /\ dev'.sem = 0)]_vars

\* a call has returned interrupted while the other caller, in the middle
\* of its write, holds the semaphore
C13_Witness ==
  \E c, d \in Callers :
    /\ c # d
    /\ loc[c].pc = "idle"
    /\ loc[c].op \in {"read", "write"}
    /\ loc[c].retval = -ERESTARTSYS
    /\ loc[d].op = "write"
    /\ loc[d].pc \in {"w_array", "w_quantum", "w_copy"}
    /\ dev.sem = 0
    /\ ub = {}

(***************************************************************************)
(* SpecLive: SpecRW with no signal delivered, every exit of read and      *)
(* write among the calls, and a fair scheduler: a thread that can run its *)
(* next statement does, and a thread that waits for the semaphore gets it *)
(* when it is released over and over (the semaphore queues its waiters).  *)
(***************************************************************************)
FaultsLive == {<<FALSE, NoFail>>, <<FALSE, 1>>, <<TRUE, NoFail>>}

Enter ==
  \/ \E c \in Callers, pos \in {0, 1}, fault \in BOOLEAN :
       /\ Read(c, pos, 2, fault, NoFail)
       /\ Entered(c, read_call(loc[c], pos, 2, fault, NoFail))
  \/ \E c \in Callers, pos \in {0, MaxPos}, ff \in FaultsLive :
       /\ Write(c, pos, <<1>>, ff[1], ff[2])
       /\ Entered(c, write_call(loc[c], pos, <<1>>, ff[1], ff[2]))

Proceed(c) ==
  /\ \/ ReadStep(c)
     \/ WriteStep(c)
     \/ Follow(c)
     \/ Up(c)
  /\ UNCHANGED <<snap, h>>

Acquire(c) == Down(c) /\ UNCHANGED <<snap, h>>

NextLive ==
  \/ Enter
  \/ \E c \in Callers : Proceed(c)
  \/ \E c \in Callers : Acquire(c)

SpecLive ==
  /\ InitRW
  /\ [][NextLive]_vars
  /\ \A c \in Callers : WF_vars(Proceed(c)) /\ SF_vars(Acquire(c))

Holders == {c \in Callers : InFlight(c)}

(***************************************************************************)
(* C14: a read or write that has taken the semaphore releases it once,    *)
(* in the step that returns, whatever the exit (end of the data, hole,    *)
(* success, -ENOMEM, -EFAULT): the semaphore is held exactly while one    *)
(* call is between down and up, it is free when no call is in progress,   *)
(* and under fair scheduling every call that waits for it gets it and     *)
(* every call returns.                                                    *)
(***************************************************************************)
C14_LockReleased ==
  /\ [](dev.sem = 1 - Cardinality(Holders))
  /\ [](AllIdle => dev.sem = 1)
  /\ [][\A c \in Callers :
          (StepOf(c) /\ InFlight(c)) =>
             /\ loc'[c].pc = "idle" => (dev.sem = 0 /\ dev'.sem = 1)
             /\ loc'[c].pc # "idle" => (InFlight(c)' /\ dev'.sem = dev.sem)]_vars
  /\ \A c \in Callers :
       /\ (loc[c].pc \in {"r_down", "w_down"}) ~> InFlight(c)
       /\ InFlight(c) ~> (loc[c].pc = "idle" /\ ub = {})

\* the second of two overlapping calls has returned after it waited for the
\* first, which left through the -EFAULT exit
C14_Witness ==
  \E c, d \in Callers :
    /\ c # d
    /\ AllIdle
    /\ dev.sem = 1
    /\ snap.calls[c].op = "write" /\ snap.calls[d].op # "none"
    /\ loc[c].retval = -EFAULT
    /\ loc[d].retval > 0

(***************************************************************************)
(* SpecTranslate: the device is loaded with any quantum and qset up to    *)
(* MaxQuantum and MaxQset, and read or write computes item, s_pos and     *)
(* q_pos for a position up to MaxOffset.                                  *)
(***************************************************************************)
InitTranslate ==
  /\ \E p \in [quantum : 1..MaxQuantum, qset : 1..MaxQset] : InitDev(p)
  /\ snap = <<>>
  /\ \E o \in 0..MaxOffset : h = [offset |-> o, by |-> "none", out |-> IdleLocals]

\* lines 110-111 and 124-127
TranslateRead ==
  /\ h.by = "none"
  /\ h' = [h EXCEPT !.by = "read",
             !.out = translate(read_init(Shared,
                        read_call(loc["a"], h.offset, 1, FALSE, NoFail)).l)]
  /\ UNCHANGED <<dev, heap, ub, loc, param, snap>>

\* lines 155-156 and 163-166
TranslateWrite ==
  /\ h.by = "none"
  /\ h' = [h EXCEPT !.by = "write",
             !.out = translate(write_init(Shared,
                        write_call(loc["a"], h.offset, <<1>>, FALSE, NoFail)).l)]
  /\ UNCHANGED <<dev, heap, ub, loc, param, snap>>

NextTranslate == TranslateRead \/ TranslateWrite

SpecTranslate == InitTranslate /\ [][NextTranslate]_vars

(***************************************************************************)
(* C15: for every position >= 0 and every quantum > 0 and qset > 0, the   *)
(* item, s_pos and q_pos that read and write compute satisfy              *)
(* item * quantum * qset + s_pos * quantum + q_pos = position, with       *)
(* 0 <= s_pos < qset and 0 <= q_pos < quantum.                            *)
(***************************************************************************)
C15_TranslateInverts ==
  h.by # "none" =>
    /\ h.out.f_pos = h.offset
    /\ h.out.quantum = dev.quantum /\ h.out.qset = dev.qset
    /\ h.out.item * dev.quantum * dev.qset + h.out.s_pos * dev.quantum + h.out.q_pos
         = h.offset
    /\ h.out.item >= 0
    /\ 0 <= h.out.s_pos /\ h.out.s_pos < dev.qset
    /\ 0 <= h.out.q_pos /\ h.out.q_pos < dev.quantum

\* a position in the third node or later, not in its first quantum and not
\* at the start of a quantum
C15_Witness ==
  /\ h.by = "write"
  /\ h.out.item >= 2
  /\ h.out.s_pos > 0
  /\ h.out.q_pos > 0

(***************************************************************************)
(* SpecSum: the calls of one caller, one after the other, who adds up the *)
(* counts its successful writes return since the last trim (while the sum *)
(* is at most MaxSum) and notes whether one of them began past the size.  *)
(***************************************************************************)
Summed ==
  LET l == loc'["a"]
      trim == l.op = "open" /\ l.f_flags = "O_WRONLY"
      wrote == l.op = "write" /\ l.retval >= 0
  IN /\ h' = [sum |-> IF trim THEN 0 ELSE IF wrote THEN h.sum + l.retval ELSE h.sum,
              gap |-> IF trim THEN FALSE ELSE h.gap \/ (wrote /\ l.arg_pos > dev.size)]
     /\ h'.sum <= MaxSum
     /\ UNCHANGED snap

InitSum ==
  /\ InitDev([quantum |-> SCULL_QUANTUM, qset |-> SCULL_QSET])
  /\ snap = <<>>
  /\ h = [sum |-> 0, gap |-> FALSE]

NextSum ==
  \/ \E pos \in Positions, count \in Counts :
       scull_read("a", pos, count, FALSE, NoFail) /\ Summed
  \/ \E pos \in Positions, n \in Counts, ff \in Faults :
       scull_write("a", pos, Pattern(1, n), ff[1], ff[2]) /\ Summed
  \/ \E fl \in OpenFlags :
       scull_open("a", fl) /\ Summed
  \/ Taken("a") /\ UNCHANGED <<snap, h>>

SpecSum == InitSum /\ [][NextSum]_vars

(***************************************************************************)
(* C16 as claimed: the size is never more than the sum of the counts      *)
(* returned by the successful writes since the last trim, also after      *)
(* writes at positions past the size and writes of no bytes.              *)
(***************************************************************************)
C16_AsClaimed == dev.size <= h.sum

(***************************************************************************)
(* C16, amended: the size is never more than that sum as long as every    *)
(* successful write since the last trim began at a position not past the  *)
(* size of the moment.                                                     *)
(***************************************************************************)
C16_SizeWithinSum == ~h.gap => dev.size <= h.sum

\* a write of no bytes at the size has returned, after writes that began at
\* or below the size and overlapped
C16_Witness ==
  /\ Returned("a")
  /\ loc["a"].op = "write"
  /\ loc["a"].arg_count = 0
  /\ loc["a"].retval = 0
  /\ loc["a"].arg_pos = dev.size
  /\ ~h.gap
  /\ dev.size >= 3
  /\ dev.size < h.sum

(***************************************************************************)
(* What a statement accesses: it reads a field of the device when its     *)
(* outcome depends on the field, and it writes the device or the heap     *)
(* when it changes them.                                                  *)
(***************************************************************************)
OtherSize == {[dev EXCEPT !.size = @ + 1]}
OtherParams == {[dev EXCEPT !.quantum = @ + 1], [dev EXCEPT !.qset = @ + 1]}
OtherData == {[dev EXCEPT !.data = IF @ = NULL THEN 1 ELSE NULL]}

ReadsDev(c, others) ==
  \E d \in others :
    Exec([Shared EXCEPT !.dev = d], loc[c]).l # Exec(Shared, loc[c]).l

WritesStore(c) ==
  \/ heap' # heap
  \/ [dev' EXCEPT !.sem = 0] # [dev EXCEPT !.sem = 0]

(***************************************************************************)
(* C17 as claimed: a statement of read or write that reads or writes the  *)
(* size, the quantum, the qset or the list runs between down and up, and  *)
(* at most one read or write is between down and up at a time.            *)
(***************************************************************************)
C17_AccessUnderLock ==
  [][/\ Cardinality(Holders) <= 1
     /\ Cardinality(Holders') <= 1
     /\ \A c \in Callers :
          (/\ StepOf(c)
           /\ loc[c].op \in {"read", "write"}
           /\ loc'[c].retval # -ERESTARTSYS
           /\ \/ WritesStore(c)
              \/ ReadsDev(c, OtherSize \cup OtherParams \cup OtherData))
          => (InFlight(c) /\ dev.sem = 0)]_vars

\* every array in the list has d.qset slots and every quantum in it has
\* d.quantum bytes
Sized(d, hp) ==
  \A id \in ChainIds(d, hp) :
    (hp.nodes[id].live /\ hp.nodes[id].data.p # "null") =>
      /\ Len(hp.nodes[id].data.slots) = d.qset
      /\ \A i \in 1..Len(hp.nodes[id].data.slots) :
           hp.nodes[id].data.slots[i].p = "live" =>
             Len(hp.nodes[id].data.slots[i].bytes) = d.quantum

(***************************************************************************)
(* C18 as claimed: in every reachable state every array in the list has   *)
(* the device's qset slots and every quantum the device's quantum bytes,  *)
(* so scull_trim frees the slots that exist; and the quantum and the qset *)
(* change only in a step that leaves the list empty and the size 0.       *)
(***************************************************************************)
C18_ArraysMatchQset ==
  [][/\ Sized(dev', heap')
     /\ "out_of_bounds" \notin ub'
     /\ (dev'.quantum # dev.quantum \/ dev'.qset # dev.qset) =>
          (dev'.size = 0 /\ dev'.data = NULL)]_vars

(***************************************************************************)
(* C19 as claimed: every byte a successful read delivers was stored at    *)
(* its offset by a successful write since the last trim; none is a byte   *)
(* of a quantum that no write has filled.  (The bytes writes store are    *)
(* those of Bytes; a byte of a new quantum stays Uninit until a write     *)
(* stores one over it.)                                                    *)
(***************************************************************************)
C19_ReadsOnlyWritten ==
  [][(CallOf("a", "read") /\ loc'["a"].retval > 0) =>
       /\ Returned("a")'
       /\ Len(loc'["a"].ubuf) = loc'["a"].retval
       /\ \A i \in 1..Len(loc'["a"].ubuf) :
            /\ loc'["a"].ubuf[i] \in Bytes
            /\ loc'["a"].ubuf[i] = ByteAt(dev, heap, loc'["a"].arg_pos + i - 1)]_vars

\* the list has a node for every offset below the size
NodesBelowSize(d, hp) ==
  \A p \in 0..(d.size - 1) :
    LET id == Nth(hp, d.data, p \div (d.quantum * d.qset))
    IN id # NULL /\ hp.nodes[id].live

(***************************************************************************)
(* C20: with no scull_trim overlapping a read or a write, after every     *)
(* call (writes that failed with -ENOMEM or -EFAULT among them) the list  *)
(* has a node at every place 0..(p div (quantum * qset)) for every p      *)
(* below the size; so the scull_follow of a read allocates nothing.       *)
(***************************************************************************)
C20_NodesCoverSize ==
  [][/\ NodesBelowSize(dev', heap')
     /\ CallOf("a", "read") =>
          /\ Returned("a")'
          /\ heap' = heap
          /\ dev' = dev]_vars

\* a read in the second node has returned bytes; the first node is in the
\* list although nothing was ever written in it
C20_Witness ==
  /\ Returned("a")
  /\ loc["a"].op = "read"
  /\ loc["a"].retval > 0
  /\ loc["a"].arg_pos >= dev.quantum * dev.qset
  /\ LiveNodes >= 2
  /\ heap.nodes[dev.data].data.p = "null"

====
